---- MODULE Spec2Model ----
(***************************************************************************)
(* Concept/meaning matching game of src/app.py (a Streamlit script).       *)
(*                                                                         *)
(* The state is the st.session_state bag (lines 150-169).  Every action is *)
(* one run of the script: a run that handles a button click, or the run    *)
(* that st.rerun() starts right after a handler.  pc is the position of    *)
(* the script: "idle" (the page is rendered and waits for a click) or      *)
(* "rerunNNN" (st.rerun() was called at line NNN; no click can happen      *)
(* before that run).  button is the label of the st.button that returned   *)
(* True in the last run, None when no button did.                          *)
(*                                                                         *)
(* Spec is the game: its handlers take generate_quiz_pairs as the set of   *)
(* outcomes a call can have.  SpecGen is one call of generate_quiz_pairs   *)
(* step by step (lines 97-138), for every list of API keys.                *)
(***************************************************************************)
EXTENDS Integers, Sequences, FiniteSets, TLC

\* ---------------------------------------------------------------- bounds
MaxPairs == 2   \* longest pair list the generative model returns here
MaxScore == 3   \* no further round is requested once score reaches this
MaxKeys == 2    \* longest list of API keys

\* ------------------------------------------------------------ value sets
None == "<None>"          \* Python None
Missing == "<no key>"     \* a dict that lacks the key

\* Concept strings the generative model may return; "" is the empty string.
Concepts == {"", "A", "B"}
Meanings == {"x", "y"}
\* Non-blank source texts (line 193 rejects a blank one).
Sources == {"s1", "s2"}

\* Python truthiness of a selection (line 364): None and "" are falsy.
Truthy(s) == s # None /\ s # ""

Range(s) == {s[i] : i \in 1..Len(s)}

\* No shuffle: the list as it came.
SampleUnshuffled(xs) == {xs}

\* All orders random.sample(xs, len(xs)) can return (lines 206-207, 353-354).
Sample(xs) ==
    LET n == Len(xs)
        Bij == {f \in [1..n -> 1..n] : \A i, j \in 1..n : f[i] = f[j] => i = j}
    IN  {[i \in 1..n |-> xs[f[i]]] : f \in Bij}

\* [p["concept"] for p in pairs]
ConceptsOf(ps) == [i \in 1..Len(ps) |-> ps[i].concept]
\* [p["meaning"] for p in pairs]; raises KeyError unless HasMeanings(ps)
MeaningsOf(ps) == [i \in 1..Len(ps) |-> ps[i].meaning]
HasMeanings(ps) == \A i \in 1..Len(ps) : ps[i].meaning # Missing

\* ------------------------------------------------------------ PairSource
\* What json.loads(text) (line 130) can be here: a list of at most MaxPairs
\* objects, each with a "concept" and possibly without a "meaning"; the
\* concepts are distinct and so are the meanings that are present.
Payloads ==
    UNION {
      {ps \in [1..n -> [concept : Concepts, meaning : Meanings \cup {Missing}]] :
          \A i, j \in 1..n :
             i # j => /\ ps[i].concept # ps[j].concept
                      /\ (ps[i].meaning = ps[j].meaning => ps[i].meaning = Missing)}
      : n \in 0..MaxPairs }

\* generate_quiz_pairs either raises ValueError (lines 99, 138) or returns
\* the parsed payload (line 130).
generate_quiz_pairs ==
    {[raised |-> TRUE, value |-> <<>>]}
      \cup {[raised |-> FALSE, value |-> ps] : ps \in Payloads}

\* Key strings of the environment and of the secrets (lines 23-33).
KeyNames == {"k1", "k2", "k3"}

\* Line 38: the stripped, non-empty keys, without duplicates, in order.
KeyLists ==
    UNION {
      {ks \in [1..n -> KeyNames] : \A i, j \in 1..n : ks[i] = ks[j] => i = j}
      : n \in 0..MaxKeys }

\* The keys of the deployment the game is played on.
ConfiguredKeys == <<"k1", "k2">>

\* What one pass of the try block (lines 119-130) can end in: an exception
\* of the upstream call, an exception of json.loads, or the parsed payload.
AttemptOutcomes ==
    {[kind |-> k, value |-> <<>>] : k \in {"api_error", "parse_error"}}
      \cup {[kind |-> "parsed", value |-> ps] : ps \in Payloads}

\* ----------------------------------------------------------------- state
VARIABLES
    game_active, pairs, shuffled_concepts, shuffled_meanings,
    selected_concept, selected_meaning, matched_pairs, score,
    current_source_content, pc, button,
    \* one call of generate_quiz_pairs, lines 97-138
    API_KEYS, gen_pc, key_index, tried, gen_value

vars == <<game_active, pairs, shuffled_concepts, shuffled_meanings,
          selected_concept, selected_meaning, matched_pairs, score,
          current_source_content, pc, button,
          API_KEYS, gen_pc, key_index, tried, gen_value>>

\* The session state of lines 150-169 and the position of the script.
session == <<game_active, pairs, shuffled_concepts, shuffled_meanings,
             selected_concept, selected_meaning, matched_pairs, score,
             current_source_content, pc, button>>

\* The state of a call of generate_quiz_pairs.
gen == <<API_KEYS, gen_pc, key_index, tried, gen_value>>

round == <<pairs, shuffled_concepts, shuffled_meanings>>
selection == <<selected_concept, selected_meaning>>

Init ==
    /\ game_active = FALSE
    /\ pairs = <<>>
    /\ shuffled_concepts = <<>>
    /\ shuffled_meanings = <<>>
    /\ selected_concept = None
    /\ selected_meaning = None
    /\ matched_pairs = <<>>
    /\ score = 0
    /\ current_source_content = ""
    /\ pc = "idle"
    /\ button = None
    /\ API_KEYS = ConfiguredKeys
    /\ gen_pc = "none"
    /\ key_index = 0
    /\ tried = <<>>
    /\ gen_value = <<>>

\* Labels of the buttons outside the grid (lines 192, 333, 348).
QuizLabel == "Quiz Olustur"
MenuLabel == "Menuye Don"
NewLabel == "Yeni Sorulari Getir"

\* A run started by st.rerun() is pending.
Rerunning == pc # "idle"

\* The win condition without its non-empty test.
IsRoundCompleteNoEmptyTest == Len(matched_pairs) = Len(pairs)

\* Win condition, line 345.
IsRoundComplete ==
    Len(matched_pairs) = Len(pairs) /\ Len(pairs) > 0

\* A handler that forgets to clear the matched list.
MatchedKept == matched_pairs

\* Line 337.
MatchedAfterMenu == <<>>

\* Line 355.
MatchedAfterNewRound == <<>>

\* --------------------------------------------------------------- menu
\* "Quiz Olustur" handlers (lines 199-212; 231-245, 260-277 and 293-322 have
\* the same body after their text is extracted).
QuizOlustur(text, r) ==
    /\ UNCHANGED gen
    /\ pc = "idle"
    /\ ~game_active
    /\ button' = QuizLabel
    /\ IF r.raised
       THEN \* except branch, line 211: st.error only
            UNCHANGED <<game_active, round, selection, matched_pairs, score,
                        current_source_content, pc>>
       ELSE /\ current_source_content' = text
            /\ pairs' = r.value
            /\ \E co \in Sample(ConceptsOf(r.value)) : shuffled_concepts' = co
            /\ IF HasMeanings(r.value)
               THEN /\ \E mo \in Sample(MeaningsOf(r.value)) : shuffled_meanings' = mo
                    /\ game_active' = TRUE
                    /\ pc' = "rerun210"
               ELSE \* KeyError at line 207, caught at line 211
                    UNCHANGED <<shuffled_meanings, game_active, pc>>
            /\ UNCHANGED <<selection, matched_pairs, score>>

\* --------------------------------------------------------------- game
\* "Menuye Don", lines 333-339.
MenuyeDon ==
    /\ UNCHANGED gen
    /\ pc = "idle"
    /\ game_active
    /\ button' = MenuLabel
    /\ game_active' = FALSE
    /\ selected_concept' = None
    /\ selected_meaning' = None
    /\ matched_pairs' = MatchedAfterMenu
    /\ score' = 0
    /\ pc' = "rerun339"
    /\ UNCHANGED <<round, current_source_content>>

\* The handler with the reset of line 355 moved in front of the try block.
YeniSorulariGetirClearsFirst(r) ==
    /\ UNCHANGED gen
    /\ pc = "idle"
    /\ game_active
    /\ IsRoundComplete
    /\ score < MaxScore
    /\ button' = NewLabel
    /\ matched_pairs' = <<>>
    /\ IF r.raised
       THEN UNCHANGED <<game_active, round, selection, score,
                        current_source_content, pc>>
       ELSE /\ pairs' = r.value
            /\ \E co \in Sample(ConceptsOf(r.value)) : shuffled_concepts' = co
            /\ IF HasMeanings(r.value)
               THEN /\ \E mo \in Sample(MeaningsOf(r.value)) : shuffled_meanings' = mo
                    /\ selected_concept' = None
                    /\ selected_meaning' = None
                    /\ pc' = "rerun358"
               ELSE UNCHANGED <<shuffled_meanings, selection, pc>>
            /\ UNCHANGED <<game_active, score, current_source_content>>

\* "Yeni Sorulari Getir", lines 348-360: shown only under the win condition.
YeniSorulariGetir(r) ==
    /\ UNCHANGED gen
    /\ pc = "idle"
    /\ game_active
    /\ IsRoundComplete
    /\ score < MaxScore
    /\ button' = NewLabel
    /\ IF r.raised
       THEN \* except branch, line 359: st.error only
            UNCHANGED <<game_active, round, selection, matched_pairs, score,
                        current_source_content, pc>>
       ELSE /\ pairs' = r.value
            /\ \E co \in Sample(ConceptsOf(r.value)) : shuffled_concepts' = co
            /\ IF HasMeanings(r.value)
               THEN /\ \E mo \in Sample(MeaningsOf(r.value)) : shuffled_meanings' = mo
                    /\ matched_pairs' = MatchedAfterNewRound
                    /\ selected_concept' = None
                    /\ selected_meaning' = None
                    /\ pc' = "rerun358"
               ELSE \* KeyError at line 354, caught at line 359
                    UNCHANGED <<shuffled_meanings, matched_pairs, selection, pc>>
            /\ UNCHANGED <<game_active, score, current_source_content>>

\* A search that compares the concept alone.
MatchScanConceptOnly(ps, c, m, i) ==
    IF \E j \in i..Len(ps) : ps[j].concept = c THEN "found" ELSE "notfound"

\* The search of lines 367-372: "found", "notfound", or "KeyError" when the
\* loop reads p["meaning"] of an object that has none.
RECURSIVE MatchScan(_, _, _, _)
MatchScan(ps, c, m, i) ==
    IF i > Len(ps) THEN "notfound"
    ELSE IF ps[i].concept = c
         THEN IF ps[i].meaning = Missing THEN "KeyError"
              ELSE IF ps[i].meaning = m THEN "found"
              ELSE MatchScan(ps, c, m, i + 1)
         ELSE MatchScan(ps, c, m, i + 1)

\* A match that takes a point away.
ScoreAfterMatchDown(s) == s - 1

\* A match that counts double.
ScoreAfterMatchTwice(s) == s + 2

\* Line 371.
ScoreAfterMatch(s) == s + 1

\* An assignment in place of the append.
MatchedOnlyLast(mp, c) == <<c>>

\* Line 370.
MatchedAfterMatch(mp, c) == Append(mp, c)

\* Line 364: the test that starts the match logic.
BothSelected == Truthy(selected_concept) /\ Truthy(selected_meaning)

\* The grid (lines 381-411) and the match logic are in the else branch of
\* line 362.
GridShown == game_active /\ ~IsRoundComplete

\* Lines 377-378: the value both selections get after the search.
SelectionAfterMatchLogic(sel) == None

\* Match Logic, lines 364-379, in the run st.rerun() starts after a click.
MatchLogic ==
    /\ UNCHANGED gen
    /\ Rerunning
    /\ GridShown
    /\ BothSelected
    /\ button' = None
    /\ LET res == MatchScan(pairs, selected_concept, selected_meaning, 1) IN
       IF res = "KeyError"
       THEN \* the run dies with the exception; nothing was assigned yet
            /\ pc' = "idle"
            /\ UNCHANGED <<game_active, round, selection, matched_pairs, score,
                           current_source_content>>
       ELSE /\ IF res = "found"
               THEN /\ matched_pairs' = MatchedAfterMatch(matched_pairs, selected_concept)
                    /\ score' = ScoreAfterMatch(score)
               ELSE \* line 375: st.error, no assignment
                    UNCHANGED <<matched_pairs, score>>
            /\ selected_concept' = SelectionAfterMatchLogic(selected_concept)
            /\ selected_meaning' = SelectionAfterMatchLogic(selected_meaning)
            /\ pc' = "rerun379"
            /\ UNCHANGED <<game_active, round, current_source_content>>

\* A run started by st.rerun() that only renders: the menu, the win banner,
\* or the grid with no pair of selections to resolve.
Render ==
    /\ UNCHANGED gen
    /\ Rerunning
    /\ ~(GridShown /\ BothSelected)
    /\ button' = None
    /\ pc' = "idle"
    /\ UNCHANGED <<game_active, round, selection, matched_pairs, score,
                   current_source_content>>

\* A button for every concept, matched or not.
ConceptButtonAlways(c) == c \in Range(shuffled_concepts)

\* Line 387: a concept with a button rather than a check mark.
ConceptButton(c) ==
    /\ c \in Range(shuffled_concepts)
    /\ c \notin Range(matched_pairs)

\* A click that always selects and never deselects.
ToggleSelectionNoDeselect(current, clicked) == clicked

\* Lines 392 and 410.
ToggleSelection(current, clicked) ==
    IF current # clicked THEN clicked ELSE None

\* Concept button, lines 390-393.
SelectConcept(c) ==
    /\ UNCHANGED gen
    /\ pc = "idle"
    /\ GridShown
    /\ ConceptButton(c)
    /\ button' = c
    /\ selected_concept' = ToggleSelection(selected_concept, c)
    /\ pc' = "rerun393"
    /\ UNCHANGED <<game_active, round, selected_meaning, matched_pairs, score,
                   current_source_content>>

\* Lines 399-403: "matched", "unmatched", or "KeyError" when the loop reads
\* a key the object lacks.
RECURSIVE IsMatchedScan(_, _, _, _)
IsMatchedScan(ps, mp, m, i) ==
    IF i > Len(ps) THEN "unmatched"
    ELSE IF ps[i].meaning = Missing THEN "KeyError"
    ELSE IF ps[i].meaning = m /\ ps[i].concept \in Range(mp) THEN "matched"
    ELSE IsMatchedScan(ps, mp, m, i + 1)

\* A button for every meaning, matched or not.
MeaningButtonAlways(k) == k \in 1..Len(shuffled_meanings)

\* The k-th meaning has a button: the loop of line 397 got that far without
\* an exception, and lines 399-405 found it unmatched.
MeaningButton(k) ==
    /\ k \in 1..Len(shuffled_meanings)
    /\ \A j \in 1..k :
          IsMatchedScan(pairs, matched_pairs, shuffled_meanings[j], 1) # "KeyError"
    /\ IsMatchedScan(pairs, matched_pairs, shuffled_meanings[k], 1) = "unmatched"

\* Meaning button, lines 408-411.
SelectMeaning(k) ==
    /\ UNCHANGED gen
    /\ pc = "idle"
    /\ GridShown
    /\ MeaningButton(k)
    /\ button' = shuffled_meanings[k]
    /\ selected_meaning' = ToggleSelection(selected_meaning, shuffled_meanings[k])
    /\ pc' = "rerun411"
    /\ UNCHANGED <<game_active, round, selected_concept, matched_pairs, score,
                   current_source_content>>

Next ==
    \/ \E text \in Sources, r \in generate_quiz_pairs : QuizOlustur(text, r)
    \/ MenuyeDon
    \/ \E r \in generate_quiz_pairs : YeniSorulariGetir(r)
    \/ MatchLogic
    \/ Render
    \/ \E c \in Concepts : SelectConcept(c)
    \/ \E k \in 1..MaxPairs : SelectMeaning(k)

Spec == Init /\ [][Next]_vars

\* ------------------------------------------------- generate_quiz_pairs
\* Entry of generate_quiz_pairs, line 97.
GenerateCall ==
    /\ gen_pc \in {"none", "returned", "raised"}
    /\ gen_pc' = "entered"
    /\ key_index' = 0
    /\ tried' = <<>>
    /\ gen_value' = <<>>
    /\ UNCHANGED <<API_KEYS, session>>

\* Lines 98-99: no key, ValueError before any attempt.
GenerateNoKeys ==
    /\ gen_pc = "entered"
    /\ API_KEYS = <<>>
    /\ gen_pc' = "raised"
    /\ UNCHANGED <<API_KEYS, key_index, tried, gen_value, session>>

\* A loop that skips every other key.
NextKeyIndexSkip(i) == i + 2

\* Line 118: the key the loop takes next, after the one at index i.
NextKeyIndex(i) == i + 1

\* Lines 118-134: one pass of the loop with the next key.
GenerateAttempt(o) ==
    /\ gen_pc = "entered"
    /\ NextKeyIndex(key_index) \in 1..Len(API_KEYS)
    /\ key_index' = NextKeyIndex(key_index)
    /\ tried' = Append(tried, [key |-> API_KEYS[key_index'], kind |-> o.kind,
                                value |-> o.value])
    /\ IF o.kind = "parsed"
       THEN \* line 130
            /\ gen_pc' = "returned"
            /\ gen_value' = o.value
       ELSE \* lines 131-134: continue
            UNCHANGED <<gen_pc, gen_value>>
    /\ UNCHANGED <<API_KEYS, session>>

\* Lines 136-138: the loop ended without a return.
GenerateAllFailed ==
    /\ gen_pc = "entered"
    /\ API_KEYS # <<>>
    /\ NextKeyIndex(key_index) \notin 1..Len(API_KEYS)
    /\ gen_pc' = "raised"
    /\ UNCHANGED <<API_KEYS, key_index, tried, gen_value, session>>

InitGen ==
    /\ game_active = FALSE
    /\ pairs = <<>>
    /\ shuffled_concepts = <<>>
    /\ shuffled_meanings = <<>>
    /\ selected_concept = None
    /\ selected_meaning = None
    /\ matched_pairs = <<>>
    /\ score = 0
    /\ current_source_content = ""
    /\ pc = "idle"
    /\ button = None
    /\ API_KEYS \in KeyLists
    /\ gen_pc = "none"
    /\ key_index = 0
    /\ tried = <<>>
    /\ gen_value = <<>>

NextGen ==
    \/ GenerateCall
    \/ GenerateNoKeys
    \/ \E o \in AttemptOutcomes : GenerateAttempt(o)
    \/ GenerateAllFailed

\* generate_quiz_pairs on its own, for every list of keys.
SpecGen == InitGen /\ [][NextGen]_vars

\* ---------------------------------------------------------------- claims
\* pairs holds an entry with this concept and this meaning.
PairIn(c, m) ==
    \E i \in 1..Len(pairs) : pairs[i].concept = c /\ pairs[i].meaning = m

\* The run about to start is a resolution of the selected concept and meaning.
Resolving == Rerunning /\ GridShown /\ BothSelected

C2_MismatchedResolution ==
    [][(Rerunning /\ GridShown
          /\ selected_concept # None /\ selected_meaning # None
          /\ ~PairIn(selected_concept, selected_meaning))
         => /\ UNCHANGED <<matched_pairs, score, pairs, shuffled_concepts,
                           shuffled_meanings>>
            /\ GridShown']_vars

\* A mismatched resolution has just run in a session with no match so far.
C2_Witness ==
    /\ pc = "rerun379"
    /\ score = 0
    /\ matched_pairs = <<>>
    /\ Len(pairs) = 2

\* C3: after a resolution both selections are None, hence whenever the page
\* waits for the next click at most one selection is pending.
C3_AtMostOnePending ==
    /\ pc = "rerun379" => selected_concept = None /\ selected_meaning = None
    /\ pc = "idle" => selected_concept = None \/ selected_meaning = None
\* C3 (first half): the run after a resolution starts with no selection.
C3_ClearedAfterResolution ==
    pc = "rerun379" => selected_concept = None /\ selected_meaning = None

\* Every concept of pairs is in matched_pairs.
AllMatched ==
    pairs # <<>> /\ \A i \in 1..Len(pairs) : pairs[i].concept \in Range(matched_pairs)

NewRoundOffered == \E r \in generate_quiz_pairs : YeniSorulariGetir(r)

\* C4: the new-round button (the report of completion) is there exactly when
\* matched_pairs is as long as pairs and pairs is not empty; in a round of
\* well-formed pairs that is exactly when every pair's concept is matched.
C4_RoundCompletion ==
    /\ (game_active /\ pc = "idle" /\ score < MaxScore)
         => (ENABLED NewRoundOffered
               <=> (Len(matched_pairs) = Len(pairs) /\ Len(pairs) > 0))
    /\ (game_active /\ HasMeanings(pairs))
         => ((Len(matched_pairs) = Len(pairs) /\ Len(pairs) > 0) <=> AllMatched)

\* The last of two pairs has just been matched.
C4_Witness ==
    /\ pc = "rerun379"
    /\ Len(pairs) = 2
    /\ HasMeanings(pairs)
    /\ AllMatched
    /\ IsRoundComplete

\* C5: a successful new round empties matched_pairs, clears both selections
\* and keeps score.
C5_RoundBoundary ==
    [][(pc = "idle" /\ pc' = "rerun358")
         => /\ matched_pairs' = <<>>
            /\ selected_concept' = None
            /\ selected_meaning' = None
            /\ score' = score]_vars

\* A new round has just started with the score of the round before.
C5_Witness ==
    /\ pc = "rerun358"
    /\ button = NewLabel
    /\ score = 2
    /\ matched_pairs = <<>>
    /\ Len(pairs) = 2

\* C6: a successful start from the menu yields a round with nothing matched
\* and nothing selected.
C6_StartIsClean ==
    pc = "rerun210"
      => /\ game_active
         /\ matched_pairs = <<>>
         /\ selected_concept = None
         /\ selected_meaning = None

\* A round has just been started from the menu.
C6_Witness ==
    /\ pc = "rerun210"
    /\ button = QuizLabel
    /\ Len(pairs) = 2
    /\ matched_pairs = <<>>
    /\ selected_concept = None
    /\ selected_meaning = None

\* s and t hold the same values the same number of times.
IsPermutation(s, t) ==
    /\ Len(s) = Len(t)
    /\ \A v \in Range(s) \cup Range(t) :
          Cardinality({i \in 1..Len(s) : s[i] = v})
            = Cardinality({i \in 1..Len(t) : t[i] = v})

Orders(t) == {s \in [1..Len(t) -> Range(t)] : IsPermutation(s, t)}

ValidPairSets == {ps \in Payloads : ps # <<>> /\ HasMeanings(ps)}

StartWith(ps, co, mo) ==
    /\ \E text \in Sources : QuizOlustur(text, [raised |-> FALSE, value |-> ps])
    /\ shuffled_concepts' = co
    /\ shuffled_meanings' = mo

NewRoundWith(ps, co, mo) ==
    /\ YeniSorulariGetir([raised |-> FALSE, value |-> ps])
    /\ shuffled_concepts' = co
    /\ shuffled_meanings' = mo

\* C7: after a start or a new round both display orders are permutations of
\* the concepts and of the meanings of pairs, and for every valid pair set
\* every combination of a concept order with a meaning order can come out.
C7_IndependentPermutations ==
    /\ pc \in {"rerun210", "rerun358"}
         => /\ IsPermutation(shuffled_concepts, ConceptsOf(pairs))
            /\ IsPermutation(shuffled_meanings, MeaningsOf(pairs))
    /\ (pc = "idle" /\ ~game_active)
         => \A ps \in ValidPairSets :
              \A co \in Orders(ConceptsOf(ps)), mo \in Orders(MeaningsOf(ps)) :
                 ENABLED StartWith(ps, co, mo)
    /\ (pc = "idle" /\ game_active /\ IsRoundComplete /\ score < MaxScore)
         => \A ps \in ValidPairSets :
              \A co \in Orders(ConceptsOf(ps)), mo \in Orders(MeaningsOf(ps)) :
                 ENABLED NewRoundWith(ps, co, mo)

\* A round whose concepts are shown in the order of pairs and whose meanings
\* are shown in the opposite order.
C7_Witness ==
    /\ pc \in {"rerun210", "rerun358"}
    /\ Len(pairs) = 2
    /\ shuffled_concepts = ConceptsOf(pairs)
    /\ shuffled_meanings = <<pairs[2].meaning, pairs[1].meaning>>

\* C8: a click on the button of concept c selects c, or deselects it when c
\* is the selected concept, and leaves selected_meaning alone; the meaning
\* buttons do the same the other way round; with at most one selection made,
\* the run after the click leaves both selections alone, so a second click on
\* the same button returns the selection to None.
C8_DeselectionToggle ==
    [][/\ (pc = "idle" /\ pc' = "rerun393")
            => /\ button' \in Range(shuffled_concepts)
               /\ selected_concept' =
                     (IF selected_concept = button' THEN None ELSE button')
               /\ selected_meaning' = selected_meaning
       /\ (pc = "idle" /\ pc' = "rerun411")
            => /\ button' \in Range(shuffled_meanings)
               /\ selected_meaning' =
                     (IF selected_meaning = button' THEN None ELSE button')
               /\ selected_concept' = selected_concept
       /\ (pc \in {"rerun393", "rerun411"}
             /\ (selected_concept = None \/ selected_meaning = None))
            => UNCHANGED <<selected_concept, selected_meaning>>]_vars

\* The click on concept A that deselected it, with no meaning selected.
C8_Witness ==
    /\ pc = "rerun393"
    /\ button = "A"
    /\ selected_concept = None
    /\ selected_meaning = None

\* C9: no matched concept can be selected, and no concept is in matched_pairs
\* twice.
C9_MatchedConceptRejected ==
    /\ \A c \in Range(matched_pairs) : ~ENABLED SelectConcept(c)
    /\ \A i, j \in 1..Len(matched_pairs) :
          matched_pairs[i] = matched_pairs[j] => i = j

\* The grid is shown with one concept matched and another still to match.
C9_Witness ==
    /\ pc = "idle"
    /\ GridShown
    /\ Len(pairs) = 2
    /\ Len(matched_pairs) = 1
    /\ matched_pairs[1] \in Range(shuffled_concepts)

IsPrefix(s, t) ==
    Len(s) <= Len(t) /\ \A i \in 1..Len(s) : s[i] = t[i]

\* C10: a step either keeps every entry of matched_pairs, or empties it as
\* part of a successful new round or of the return to the menu.
C10_MatchedOnlyGrows ==
    [][\/ IsPrefix(matched_pairs, matched_pairs')
       \/ /\ matched_pairs' = <<>>
          /\ pc = "idle"
          /\ pc' \in {"rerun358", "rerun339"}]_vars

\* Two concepts matched one after the other in one round.
C10_Witness ==
    /\ pc = "rerun379"
    /\ Len(matched_pairs) = 2
    /\ matched_pairs[1] # matched_pairs[2]

\* The outcome of a call of generate_quiz_pairs that raises.
Raised == [raised |-> TRUE, value |-> <<>>]

\* The engine state a failed generation must keep.
engine == <<pairs, shuffled_concepts, shuffled_meanings, matched_pairs,
            selected_concept, selected_meaning, score, game_active>>

\* C11: a handler run in which generate_quiz_pairs raises, from the menu or
\* for a new round, leaves pairs, both display orders, matched_pairs, both
\* selections, score and game_active as they were.
C11_FailedGenerationKeepsState ==
    [][((\E text \in Sources : QuizOlustur(text, Raised))
          \/ YeniSorulariGetir(Raised))
         => UNCHANGED engine]_vars

\* A request for a new round has just failed and the complete round is intact.
C11_Witness ==
    /\ pc = "idle"
    /\ button = NewLabel
    /\ game_active
    /\ Len(pairs) = 2
    /\ HasMeanings(pairs)
    /\ Range(matched_pairs) = Range(ConceptsOf(pairs))
    /\ IsPermutation(shuffled_concepts, ConceptsOf(pairs))
    /\ IsPermutation(shuffled_meanings, MeaningsOf(pairs))
    /\ score = 2

\* Payloads that parse as JSON but hold an object without a "meaning".
Malformed == {ps \in Payloads : ~HasMeanings(ps)}

\* C12: a handler run that gets a malformed payload, from the menu or for a
\* new round, leaves pairs, both display orders, matched_pairs and both
\* selections as they were.
C12_AllOrNothingParse ==
    [][\A ps \in Malformed :
          LET r == [raised |-> FALSE, value |-> ps] IN
          ((\E text \in Sources : QuizOlustur(text, r)) \/ YeniSorulariGetir(r))
            => UNCHANGED <<pairs, shuffled_concepts, shuffled_meanings,
                           matched_pairs, selected_concept, selected_meaning>>]_vars

\* C13: no state has an active game with an empty pairs list.
C13_NoEmptyRound ==
    ~(game_active /\ pairs = <<>>)

\* C14 as claimed: the return to the menu sets score to 0 and clears pairs,
\* both display orders, matched_pairs, both selections and the source content.
C14_MenuClearsEverything ==
    [][(pc = "idle" /\ pc' = "rerun339")
         => /\ score' = 0
            /\ pairs' = <<>>
            /\ shuffled_concepts' = <<>>
            /\ shuffled_meanings' = <<>>
            /\ matched_pairs' = <<>>
            /\ selected_concept' = None
            /\ selected_meaning' = None
            /\ current_source_content' = ""]_vars

\* C14 as amended: the return to the menu leaves the game screen, sets score
\* to 0 and clears matched_pairs and both selections; pairs, both display
\* orders and the source content stay as they were.
C14_MenuReset ==
    [][(pc = "idle" /\ pc' = "rerun339")
         => /\ ~game_active'
            /\ score' = 0
            /\ matched_pairs' = <<>>
            /\ selected_concept' = None
            /\ selected_meaning' = None
            /\ UNCHANGED <<pairs, shuffled_concepts, shuffled_meanings,
                           current_source_content>>]_vars

\* Back at the menu with the pairs and the source text of the game just left.
C14_Witness ==
    /\ pc = "rerun339"
    /\ button = MenuLabel
    /\ ~game_active
    /\ score = 0
    /\ matched_pairs = <<>>
    /\ Len(pairs) = 2
    /\ Len(shuffled_meanings) = 2
    /\ current_source_content \in Sources

\* C15: no step lowers score, except the return to the menu, which sets it
\* to 0.
C15_ScoreMonotone ==
    [][\/ score' >= score
       \/ pc = "idle" /\ pc' = "rerun339" /\ score' = 0]_vars

\* A third match, in the second round of a session.
C15_Witness ==
    /\ pc = "rerun379"
    /\ score = 3
    /\ Len(matched_pairs) < 3

\* C16: from a complete round every step leads to a complete round with the
\* same matched_pairs and score, or is a successful new round or the return
\* to the menu.
C16_CompleteIsTerminal ==
    [][(game_active /\ IsRoundComplete)
         => \/ /\ game_active' /\ IsRoundComplete'
               /\ UNCHANGED <<matched_pairs, score>>
            \/ pc' \in {"rerun358", "rerun339"}]_vars

\* C16 (the parts that hold): while the round is complete there is no
\* concept button, no meaning button and no resolution, and a new round is
\* only offered when the round is complete.
C16_CompleteGates ==
    /\ (game_active /\ IsRoundComplete)
         => /\ \A c \in Concepts : ~ENABLED SelectConcept(c)
            /\ \A k \in 1..Len(shuffled_meanings) : ~ENABLED SelectMeaning(k)
            /\ ~ENABLED MatchLogic
    /\ ENABLED NewRoundOffered => game_active /\ IsRoundComplete

\* C17: pairs and both display orders change only in a successful start or a
\* successful new round.
C17_RoundFixed ==
    [][UNCHANGED <<pairs, shuffled_concepts, shuffled_meanings>>
         \/ (pc = "idle" /\ pc' \in {"rerun210", "rerun358"})]_vars

\* C17 (the part that holds): a click on a concept or a meaning, a
\* resolution and a plain render leave pairs and both display orders alone.
C17_SelectionKeepsRound ==
    [][(Rerunning \/ pc' \in {"rerun393", "rerun411"})
         => UNCHANGED <<pairs, shuffled_concepts, shuffled_meanings>>]_vars

\* C18: the keys are tried in the order of API_KEYS, each at most once and
\* none after a success; the call returns the payload of the first attempt
\* that parsed; it raises only with every key tried and failed, which with
\* no key means with no attempt at all.
C18_OrderedRetry ==
    /\ Len(tried) <= Len(API_KEYS)
    /\ \A i \in 1..Len(tried) : tried[i].key = API_KEYS[i]
    /\ \A i \in 1..(Len(tried) - 1) : tried[i].kind # "parsed"
    /\ gen_pc = "returned"
         => /\ tried # <<>>
            /\ tried[Len(tried)].kind = "parsed"
            /\ gen_value = tried[Len(tried)].value
            /\ [raised |-> FALSE, value |-> gen_value] \in generate_quiz_pairs
    /\ gen_pc = "raised"
         => /\ Len(tried) = Len(API_KEYS)
            /\ \A i \in 1..Len(tried) : tried[i].kind # "parsed"
    /\ gen_pc = "entered" => \A i \in 1..Len(tried) : tried[i].kind # "parsed"
    /\ API_KEYS = <<>> => tried = <<>> /\ gen_pc # "returned"

\* The first key failed on a payload that did not parse, the second returned.
C18_Witness ==
    /\ gen_pc = "returned"
    /\ Len(API_KEYS) = 2
    /\ Len(tried) = 2
    /\ tried[1].kind = "parse_error"
    /\ gen_value # <<>>

C20_SelectedPairIsMatched ==
    [][(Rerunning /\ GridShown /\ HasMeanings(pairs)
          /\ selected_concept # None /\ selected_meaning # None
          /\ PairIn(selected_concept, selected_meaning))
         => matched_pairs' = Append(matched_pairs, selected_concept)]_vars

====
